---- MODULE Spec2Model ----
(***************************************************************************)
(* A model of api_client.go (package wow): the ApiClient constructor, the  *)
(* URL builder, the request signer and the resource getters.               *)
(*                                                                         *)
(* Strings.  Region names, locale codes, hosts and paths are TLA+ strings  *)
(* (paths are built with \o, as the code builds them with Sprintf and +).  *)
(* Text that is later split again (query strings, header values, error    *)
(* messages) is a sequence of tokens: a token is either a separator        *)
(* character ("&", "=", ",", ":", " ", "[", "]") or a separator-free run   *)
(* of characters, and the empty string is the empty sequence.  The code    *)
(* never puts two runs next to each other without a separator between      *)
(* them, so concatenation of texts is \o on token sequences.               *)
(***************************************************************************)
EXTENDS Integers, Sequences, FiniteSets, TLC

VARIABLES
    client,   \* the *ApiClient the last NewApiClient call returned (isNil: nil)
    ctor,     \* the last NewApiClient call: its arguments and its error
    call      \* the last method call on the client: arguments, requests, result
              \* (a: the receiver as it was during the call)

vars == <<client, ctor, call>>

---------------------------------------------------------------------------
(* Bounds and input samples *)

MaxFields == 2

\* Region arguments: every supported identifier, and unsupported ones.
RegionArgs ==
    {"US", "United States", "EU", "Europe", "KR", "Korea", "TW", "Taiwan",
     "ZH", "CN", "China", "us", "USA", ""}

\* Locale arguments: empty, first and later entries of the lists, and invalid.
LocaleArgs ==
    {"", "en_US", "pt_BR", "en_GB", "it_IT", "ko_KR", "zh_TW", "zh_CN",
     "en_us", "xx_XX"}

\* Locale arguments of the constructor calls made next to the getters.
FewLocaleArgs == {"", "pt_BR", "xx_XX"}

\* (Secret, PublicKey) pairs a caller sets.
CredentialArgs == {<<"", "">>, <<"s3cr3t", "pubkey">>, <<"s3cr3t", "">>}

IntArgs == {-3, 25}
RealmArgs == {"", "region", "draenor"}
CharacterRealmArgs == {"draenor"}
NameArgs == {"thrall"}

\* (id, level, breedId, qualityId) arguments.
PetArgs == {<<0, 25, 12, -3>>}

\* Outcome of the network exchange of one request.
NetOutcomes == {"DoError", "ReadError", "BadJSON", "GoodJSON"}
PetNetOutcomes == {"DoError", "GoodJSON"}

\* Field names tried in lists of every length up to MaxFields, and alone.
FieldSample == {"guild", "pvp", "bogus", "Guild"}
FieldSingles == {"bogus", "Guild", ""}

\* Field lists of the getter calls next to the other getters.
FewFieldLists == {<<>>, <<"guild", "pvp">>, <<"pvp", "bogus", "items", "Guild">>}

---------------------------------------------------------------------------
(* Text helpers *)

\* A Go string as a token sequence.
Str(s) == IF s = "" THEN <<>> ELSE <<s>>

RECURSIVE Join(_, _)
\* strings.Join(list, sep) over token sequences.
Join(list, sep) ==
    IF Len(list) = 0 THEN <<>>
    ELSE IF Len(list) = 1 THEN list[1]
    ELSE list[1] \o <<sep>> \o Join(Tail(list), sep)

Digit == <<"0", "1", "2", "3", "4", "5", "6", "7", "8", "9">>

RECURSIVE Itoa(_)
\* strconv.Itoa, and fmt's %d.
Itoa(n) ==
    IF n < 0 THEN "-" \o Itoa(0 - n)
    ELSE IF n < 10 THEN Digit[n + 1]
    ELSE Itoa(n \div 10) \o Digit[(n % 10) + 1]

\* The nil error.
Nil == <<>>

\* Go map assignment m[k] = v.
MapSet(m, k, v) == [x \in (DOMAIN m) \cup {k} |-> IF x = k THEN v ELSE m[x]]

\* The orders in which `range` may iterate over the key set S.
Orders(S) ==
    {o \in [1..Cardinality(S) -> S] : \A i, j \in 1..Cardinality(S) : o[i] = o[j] => i = j}

---------------------------------------------------------------------------
(* ApiClient and its constructor *)

ApiClient(host, locale) ==
    [isNil |-> FALSE, Host |-> host, Locale |-> locale, Secret |-> "", PublicKey |-> ""]

NoClient ==
    [isNil |-> TRUE, Host |-> "", Locale |-> "", Secret |-> "", PublicKey |-> ""]

\* A RegionEntry that matches region names without regard to case.
RegionEntry_FoldCase(region) ==
    CASE region \in {"US", "United States", "us"} ->
            [found |-> TRUE, host |-> "us.battle.net",
             validLocales |-> <<"en_US", "es_MX", "pt_BR">>]
      [] region \in {"EU", "Europe"} ->
            [found |-> TRUE, host |-> "eu.battle.net",
             validLocales |-> <<"en_GB", "es_ES", "fr_FR", "ru_RU", "de_DE", "pt_PT", "it_IT">>]
      [] region \in {"KR", "Korea"} ->
            [found |-> TRUE, host |-> "kr.battle.net", validLocales |-> <<"ko_KR">>]
      [] region \in {"TW", "Taiwan"} ->
            [found |-> TRUE, host |-> "tw.battle.net", validLocales |-> <<"zh_TW">>]
      [] region \in {"ZH", "CN", "China"} ->
            [found |-> TRUE, host |-> "www.battle.com.cn", validLocales |-> <<"zh_CN">>]
      [] OTHER -> [found |-> FALSE, host |-> "", validLocales |-> <<>>]

\* A RegionEntry whose long name "Europe" resolves to the US entry.
RegionEntry_WrongAlias(region) ==
    CASE region \in {"US", "United States", "Europe"} ->
            [found |-> TRUE, host |-> "us.battle.net",
             validLocales |-> <<"en_US", "es_MX", "pt_BR">>]
      [] region \in {"EU"} ->
            [found |-> TRUE, host |-> "eu.battle.net",
             validLocales |-> <<"en_GB", "es_ES", "fr_FR", "ru_RU", "de_DE", "pt_PT", "it_IT">>]
      [] region \in {"KR", "Korea"} ->
            [found |-> TRUE, host |-> "kr.battle.net", validLocales |-> <<"ko_KR">>]
      [] region \in {"TW", "Taiwan"} ->
            [found |-> TRUE, host |-> "tw.battle.net", validLocales |-> <<"zh_TW">>]
      [] region \in {"ZH", "CN", "China"} ->
            [found |-> TRUE, host |-> "www.battle.com.cn", validLocales |-> <<"zh_CN">>]
      [] OTHER -> [found |-> FALSE, host |-> "", validLocales |-> <<>>]

\* The switch of NewApiClient: host and validLocales of a region, or default.
RegionEntry(region) ==
    CASE region \in {"US", "United States"} ->
            [found |-> TRUE, host |-> "us.battle.net",
             validLocales |-> <<"en_US", "es_MX", "pt_BR">>]
      [] region \in {"EU", "Europe"} ->
            [found |-> TRUE, host |-> "eu.battle.net",
             validLocales |-> <<"en_GB", "es_ES", "fr_FR", "ru_RU", "de_DE", "pt_PT", "it_IT">>]
      [] region \in {"KR", "Korea"} ->
            [found |-> TRUE, host |-> "kr.battle.net", validLocales |-> <<"ko_KR">>]
      [] region \in {"TW", "Taiwan"} ->
            [found |-> TRUE, host |-> "tw.battle.net", validLocales |-> <<"zh_TW">>]
      [] region \in {"ZH", "CN", "China"} ->
            [found |-> TRUE, host |-> "www.battle.com.cn", validLocales |-> <<"zh_CN">>]
      [] OTHER -> [found |-> FALSE, host |-> "", validLocales |-> <<>>]

\* A NewApiClient that accepts any non-empty locale without looking it up.
NewApiClient_NoLookup(region, locale) ==
    LET e == RegionEntry(region) IN
    IF ~e.found
    THEN [client |-> NoClient, err |-> <<"Region '", region, "' is not valid">>]
    ELSE IF locale = ""
    THEN [client |-> ApiClient(e.host, e.validLocales[1]), err |-> Nil]
    ELSE [client |-> ApiClient(e.host, locale), err |-> Nil]

\* A NewApiClient that falls back to the default locale on an unknown one.
NewApiClient_Fallback(region, locale) ==
    LET e == RegionEntry(region) IN
    IF ~e.found
    THEN [client |-> NoClient, err |-> <<"Region '", region, "' is not valid">>]
    ELSE IF locale = ""
    THEN [client |-> ApiClient(e.host, e.validLocales[1]), err |-> Nil]
    ELSE IF \E i \in DOMAIN e.validLocales : e.validLocales[i] = locale
    THEN [client |-> ApiClient(e.host, locale), err |-> Nil]
    ELSE [client |-> ApiClient(e.host, e.validLocales[1]), err |-> Nil]

\* A NewApiClient whose default locale is the last entry of the list.
NewApiClient_LastDefault(region, locale) ==
    LET e == RegionEntry(region) IN
    IF ~e.found
    THEN [client |-> NoClient, err |-> <<"Region '", region, "' is not valid">>]
    ELSE IF locale = ""
    THEN [client |-> ApiClient(e.host, e.validLocales[Len(e.validLocales)]), err |-> Nil]
    ELSE IF \E i \in DOMAIN e.validLocales : e.validLocales[i] = locale
    THEN [client |-> ApiClient(e.host, locale), err |-> Nil]
    ELSE [client |-> NoClient,
          err |-> <<"Locale '", locale, "' is not valid for region '", region, "'">>]

\* NewApiClient(region, locale): the returned pointer and error.
NewApiClient(region, locale) ==
    LET e == RegionEntry(region) IN
    IF ~e.found
    THEN [client |-> NoClient, err |-> <<"Region '", region, "' is not valid">>]
    ELSE IF locale = ""
    THEN [client |-> ApiClient(e.host, e.validLocales[1]), err |-> Nil]
    ELSE IF \E i \in DOMAIN e.validLocales : e.validLocales[i] = locale
    THEN [client |-> ApiClient(e.host, locale), err |-> Nil]
    ELSE [client |-> NoClient,
          err |-> <<"Locale '", locale, "' is not valid for region '", region, "'">>]

---------------------------------------------------------------------------
(* URL builder and request signer *)

LocaleKey == <<"locale">>

\* The empty map, make(map[string]string).
EmptyMap == [k \in {} |-> <<>>]

\* a.url(path, queryParamPairs): the URL, and the caller's map as url leaves
\* it.  order is the order in which range visits the map's keys.
url(a, path, queryParamPairs, order) ==
    LET pairs == MapSet(queryParamPairs, LocaleKey, Str(a.Locale))
        queryParamList == [i \in DOMAIN order |-> order[i] \o <<"=">> \o pairs[order[i]]]
    IN [URL |-> [Scheme |-> "http",
                 Host |-> a.Host,
                 Path |-> "/api/wow/" \o path,
                 RawQuery |-> Join(queryParamList, "&")],
        queryParamPairs |-> pairs]

\* a.signature(verb, path): the HMAC is computed and dropped; the result is
\* base64.StdEncoding of "hi".  (Its own a.url call works on a fresh map.)
signature(a, verb, path) == "aGk="

\* a.authorizationString(signature): Sprintf(" BNET %s:%s", PublicKey, signature).
authorizationString(a, sig) ==
    <<" ", "BNET", " ">> \o Str(a.PublicKey) \o <<":">> \o Str(sig)

\* Bytes net/url refuses in a URL string (ASCII control characters).
CtlTokens == {"\n", "\t"}

\* http.NewRequest("GET", url.String(), nil) fails when the URL string does
\* not parse.  String() percent-encodes the path; the raw query is kept.
NewRequestFails(u) == \E i \in DOMAIN u.RawQuery : u.RawQuery[i] \in CtlTokens

\* The request getWithParams hands to client.Do.
NewRequest(a, path, u) ==
    [Method |-> "GET",
     URL |-> u,
     Header |-> [Authorization |->
                    IF a.Secret # ""
                    THEN <<authorizationString(a, signature(a, "GET", path))>>
                    ELSE <<>>]]

\* A getWithParams that tries a second time when client.Do fails.
getWithParams_Retry(a, path, queryParams, order, net) ==
    LET u == url(a, path, queryParams, order)
        request == NewRequest(a, path, u.URL)
    IN IF NewRequestFails(u.URL)
       THEN [sent |-> <<>>, body |-> "", err |-> <<"parse error">>,
             queryParams |-> u.queryParamPairs]
       ELSE IF net = "DoError"
       THEN [sent |-> <<request, request>>, body |-> "", err |-> <<"NetworkError">>,
             queryParams |-> u.queryParamPairs]
       ELSE IF net = "ReadError"
       THEN [sent |-> <<request>>, body |-> "", err |-> <<"ReadError">>,
             queryParams |-> u.queryParamPairs]
       ELSE [sent |-> <<request>>, body |-> net, err |-> Nil,
             queryParams |-> u.queryParamPairs]

\* a.getWithParams(path, queryParams): the requests handed to client.Do, the
\* body and error returned, and the caller's map afterwards.
getWithParams(a, path, queryParams, order, net) ==
    LET u == url(a, path, queryParams, order)
        request == NewRequest(a, path, u.URL)
    IN IF NewRequestFails(u.URL)
       THEN [sent |-> <<>>, body |-> "", err |-> <<"parse error">>,
             queryParams |-> u.queryParamPairs]
       ELSE IF net = "DoError"
       THEN [sent |-> <<request>>, body |-> "", err |-> <<"NetworkError">>,
             queryParams |-> u.queryParamPairs]
       ELSE IF net = "ReadError"
       THEN [sent |-> <<request>>, body |-> "", err |-> <<"ReadError">>,
             queryParams |-> u.queryParamPairs]
       ELSE [sent |-> <<request>>, body |-> net, err |-> Nil,
             queryParams |-> u.queryParamPairs]

\* a.get(path)
get(a, path, order, net) == getWithParams(a, path, EmptyMap, order, net)

\* The tail every getter shares: return the fetch error, else the error of
\* json.Unmarshal on the body.
Unmarshal(r) ==
    IF r.err # Nil THEN [sent |-> r.sent, err |-> r.err]
    ELSE IF r.body = "BadJSON" THEN [sent |-> r.sent, err |-> <<"DecodeError">>]
    ELSE [sent |-> r.sent, err |-> Nil]

---------------------------------------------------------------------------
(* Character fields *)

ValidFields ==
    {"achievements", "appearance", "feed", "guild", "hunterPets", "items",
     "mounts", "pets", "petSlots", "professions", "progression", "pvp",
     "quests", "reputation", "stats", "talents", "titles"}

\* fmt's %v of a []string: the elements between brackets, a space between.
FormatV(list) ==
    <<"[">> \o Join([i \in DOMAIN list |-> Str(list[i])], " ") \o <<"]">>

RECURSIVE BadFields(_)
\* The loop of validateCharacterFields: badFields in input order.
BadFields(fields) ==
    IF fields = <<>> THEN <<>>
    ELSE IF Head(fields) \in ValidFields THEN BadFields(Tail(fields))
    ELSE <<Head(fields)>> \o BadFields(Tail(fields))

RECURSIVE FirstBadField(_)
\* A loop that stops at the first field it rejects.
FirstBadField(fields) ==
    IF fields = <<>> THEN <<>>
    ELSE IF Head(fields) \in ValidFields THEN FirstBadField(Tail(fields))
    ELSE <<Head(fields)>>

\* A validateCharacterFields that reports only the first rejected name.
validateCharacterFields_First(fields) ==
    LET badFields == FirstBadField(fields) IN
    IF Len(badFields) # 0
    THEN <<"The following fields are not valid: ">> \o FormatV(badFields)
    ELSE Nil

\* validateCharacterFields(fields): the error returned.
validateCharacterFields(fields) ==
    LET badFields == BadFields(fields) IN
    IF Len(badFields) # 0
    THEN <<"The following fields are not valid: ">> \o FormatV(badFields)
    ELSE Nil

---------------------------------------------------------------------------
(* Resource getters *)

GetAchievement(a, id, order, net) ==
    Unmarshal(get(a, "achievement/" \o Itoa(id), order, net))

GetAuctionData(a, realm, order, net) ==
    Unmarshal(get(a, "auction/data/" \o realm, order, net))

GetBattlePetAbility(a, id, order, net) ==
    Unmarshal(get(a, "battlePet/ability/" \o Itoa(id), order, net))

GetBattlePetSpecies(a, id, order, net) ==
    Unmarshal(get(a, "battlePet/species/" \o Itoa(id), order, net))

LevelKey == <<"level">>
BreedIdKey == <<"breedId">>
QualityIdKey == <<"qualityId">>
FieldsKey == <<"fields">>

\* The map literal GetBattlePet passes to getWithParams.
BattlePetParams(level, breedId, qualityId) ==
    [k \in {LevelKey, BreedIdKey, QualityIdKey} |->
        IF k = LevelKey THEN <<Itoa(level)>>
        ELSE IF k = BreedIdKey THEN <<Itoa(breedId)>>
        ELSE <<Itoa(qualityId)>>]

GetBattlePet(a, id, level, breedId, qualityId, order, net) ==
    Unmarshal(getWithParams(a, "battlePet/stats/" \o Itoa(id),
                            BattlePetParams(level, breedId, qualityId), order, net))

GetBattlePetStats(a, id, level, breedId, qualityId, order, net) ==
    GetBattlePet(a, id, level, breedId, qualityId, order, net)

\* A GetChallenges that passes the realm on as it is.
GetChallenges_NoRegion(a, realm, order, net) ==
    Unmarshal(get(a, "challenge/" \o realm, order, net))

GetChallenges(a, realm, order, net) ==
    LET r == IF realm = "" THEN "region" ELSE realm
    IN Unmarshal(get(a, "challenge/" \o r, order, net))

GetChallenge(a, realm, order, net) == GetChallenges(a, realm, order, net)

\* The map literal GetCharacterWithFields passes: strings.Join(fields, ",").
CharacterParams(fields) ==
    [k \in {FieldsKey} |-> Join([i \in DOMAIN fields |-> Str(fields[i])], ",")]

GetCharacterWithFields(a, realm, characterName, fields, order, net) ==
    LET err == validateCharacterFields(fields) IN
    IF err # Nil THEN [sent |-> <<>>, err |-> err]
    ELSE Unmarshal(getWithParams(a, "character/" \o realm \o "/" \o characterName,
                                 CharacterParams(fields), order, net))

GetCharacter(a, realm, characterName, order, net) ==
    GetCharacterWithFields(a, realm, characterName, <<>>, order, net)

---------------------------------------------------------------------------
(* State machine *)

NoURL == [Scheme |-> "", Host |-> "", Path |-> "", RawQuery |-> <<>>]

\* No method has been called on the client yet.
NoCall ==
    [op |-> "none", a |-> NoClient, realm |-> "", fields |-> <<>>, net |-> "",
     sent |-> <<>>, err |-> Nil, URL |-> NoURL, before |-> EmptyMap,
     queryParams |-> EmptyMap]

\* The record of a getter call with result r.
GetterCall(op, realm, fields, net, r) ==
    [NoCall EXCEPT !.op = op, !.a = client, !.realm = realm, !.fields = fields,
                   !.net = net, !.sent = r.sent, !.err = r.err]

Getters ==
    {"GetAchievement", "GetAuctionData", "GetBattlePetAbility", "GetBattlePetSpecies",
     "GetBattlePet", "GetBattlePetStats", "GetChallenges", "GetChallenge",
     "GetCharacter", "GetCharacterWithFields"}

\* The state NewApiClient(region, locale) leaves.
Constructed(region, locale) ==
    LET r == NewApiClient(region, locale) IN
    /\ client = r.client
    /\ ctor = [called |-> TRUE, region |-> region, locale |-> locale, err |-> r.err]
    /\ call = NoCall

\* Before any call.
Init ==
    /\ client = NoClient
    /\ ctor = [called |-> FALSE, region |-> "", locale |-> "", err |-> Nil]
    /\ call = NoCall

\* A call of NewApiClient with arguments from the given sets.
NewApiClientCall(regions, locales) ==
    \E region \in regions, locale \in locales :
        LET r == NewApiClient(region, locale) IN
        /\ client' = r.client
        /\ ctor' = [called |-> TRUE, region |-> region, locale |-> locale, err |-> r.err]
        /\ call' = NoCall

CallNewApiClient == NewApiClientCall(RegionArgs, FewLocaleArgs)

\* The caller sets the exported Secret and PublicKey fields; call keeps the
\* last method call made since the client's fields were last set.
SetCredentials ==
    /\ ~client.isNil
    /\ \E c \in CredentialArgs :
          client' = [client EXCEPT !.Secret = c[1], !.PublicKey = c[2]]
    /\ call' = NoCall
    /\ UNCHANGED ctor

\* The only iteration order of a map that holds the locale key alone.
LocaleOnly == Orders({LocaleKey})

CallGetAchievement ==
    /\ ~client.isNil
    /\ \E id \in IntArgs, order \in LocaleOnly, net \in NetOutcomes :
          call' = GetterCall("GetAchievement", "", <<>>, net,
                             GetAchievement(client, id, order, net))
    /\ UNCHANGED <<client, ctor>>

CallGetAuctionData ==
    /\ ~client.isNil
    /\ \E realm \in RealmArgs, order \in LocaleOnly, net \in NetOutcomes :
          call' = GetterCall("GetAuctionData", realm, <<>>, net,
                             GetAuctionData(client, realm, order, net))
    /\ UNCHANGED <<client, ctor>>

CallGetBattlePetAbility ==
    /\ ~client.isNil
    /\ \E id \in IntArgs, order \in LocaleOnly, net \in NetOutcomes :
          call' = GetterCall("GetBattlePetAbility", "", <<>>, net,
                             GetBattlePetAbility(client, id, order, net))
    /\ UNCHANGED <<client, ctor>>

CallGetBattlePetSpecies ==
    /\ ~client.isNil
    /\ \E id \in IntArgs, order \in LocaleOnly, net \in NetOutcomes :
          call' = GetterCall("GetBattlePetSpecies", "", <<>>, net,
                             GetBattlePetSpecies(client, id, order, net))
    /\ UNCHANGED <<client, ctor>>

BattlePetOrders == Orders({LevelKey, BreedIdKey, QualityIdKey, LocaleKey})

CallGetBattlePet ==
    /\ ~client.isNil
    /\ \E p \in PetArgs, order \in BattlePetOrders, net \in PetNetOutcomes :
          call' = GetterCall("GetBattlePet", "", <<>>, net,
                             GetBattlePet(client, p[1], p[2], p[3], p[4], order, net))
    /\ UNCHANGED <<client, ctor>>

CallGetBattlePetStats ==
    /\ ~client.isNil
    /\ \E p \in PetArgs, order \in BattlePetOrders, net \in PetNetOutcomes :
          call' = GetterCall("GetBattlePetStats", "", <<>>, net,
                             GetBattlePetStats(client, p[1], p[2], p[3], p[4], order, net))
    /\ UNCHANGED <<client, ctor>>

CallGetChallenges ==
    /\ ~client.isNil
    /\ \E realm \in RealmArgs, order \in LocaleOnly, net \in NetOutcomes :
          call' = GetterCall("GetChallenges", realm, <<>>, net,
                             GetChallenges(client, realm, order, net))
    /\ UNCHANGED <<client, ctor>>

CallGetChallenge ==
    /\ ~client.isNil
    /\ \E realm \in RealmArgs, order \in LocaleOnly, net \in NetOutcomes :
          call' = GetterCall("GetChallenge", realm, <<>>, net,
                             GetChallenge(client, realm, order, net))
    /\ UNCHANGED <<client, ctor>>

CharacterOrders == Orders({FieldsKey, LocaleKey})

CallGetCharacter ==
    /\ ~client.isNil
    /\ \E realm \in CharacterRealmArgs, name \in NameArgs, order \in CharacterOrders,
          net \in NetOutcomes :
          call' = GetterCall("GetCharacter", realm, <<>>, net,
                             GetCharacter(client, realm, name, order, net))
    /\ UNCHANGED <<client, ctor>>

\* A call of GetCharacterWithFields with a field list from the given set.
GetCharacterWithFieldsCall(lists) ==
    /\ ~client.isNil
    /\ \E realm \in CharacterRealmArgs, name \in NameArgs, fields \in lists,
          order \in CharacterOrders, net \in NetOutcomes :
          call' = GetterCall("GetCharacterWithFields", realm, fields, net,
                             GetCharacterWithFields(client, realm, name, fields, order, net))
    /\ UNCHANGED <<client, ctor>>

CallGetCharacterWithFields == GetCharacterWithFieldsCall(FewFieldLists)

Next ==
    \/ CallNewApiClient
    \/ SetCredentials
    \/ CallGetAchievement
    \/ CallGetAuctionData
    \/ CallGetBattlePetAbility
    \/ CallGetBattlePetSpecies
    \/ CallGetBattlePet
    \/ CallGetBattlePetStats
    \/ CallGetChallenges
    \/ CallGetChallenge
    \/ CallGetCharacter
    \/ CallGetCharacterWithFields

\* The client: construction, credentials and every resource getter.
Spec == Init /\ [][Next]_vars

---------------------------------------------------------------------------
(* The constructor on every region and locale argument *)

CallNewApiClientAny == NewApiClientCall(RegionArgs, LocaleArgs)

NextNew == CallNewApiClientAny

SpecNew == Init /\ [][NextNew]_vars

---------------------------------------------------------------------------
(* The character-fields validator on field lists up to MaxFields *)

\* Field lists: every name alone, and the lists over FieldSample.
FieldLists ==
    {<<f>> : f \in ValidFields \cup FieldSingles}
        \cup UNION {[1..n -> FieldSample] : n \in 0..MaxFields}

InitFields == Constructed("EU", "")

\* validateCharacterFields called on its own.
CallValidateCharacterFields ==
    /\ \E fields \in FieldLists :
          call' = [NoCall EXCEPT !.op = "validateCharacterFields", !.fields = fields,
                                 !.err = validateCharacterFields(fields)]
    /\ UNCHANGED <<client, ctor>>

CallGetCharacterWithFieldLists == GetCharacterWithFieldsCall(FieldLists)

NextFields ==
    \/ CallValidateCharacterFields
    \/ CallGetCharacterWithFieldLists
    \/ CallGetCharacter

SpecFields == InitFields /\ [][NextFields]_vars

---------------------------------------------------------------------------
(* The URL builder on arbitrary parameter maps *)

UrlKeys == {LocaleKey, FieldsKey, LevelKey}
UrlValues == {<<>>, <<"fr_FR">>, <<"5">>, <<"x", "&", "locale", "=", "fr_FR">>}

\* The parameter maps url is called with.
ParamMaps == UNION {[ks -> UrlValues] : ks \in SUBSET UrlKeys}

InitUrl == Constructed("US", "") \/ Constructed("Europe", "it_IT")

\* url called on its own with an arbitrary parameter map.
CallUrl ==
    /\ ~client.isNil
    /\ \E m \in ParamMaps :
          \E order \in Orders((DOMAIN m) \cup {LocaleKey}) :
             LET r == url(client, "x", m, order) IN
             call' = [NoCall EXCEPT !.op = "url", !.a = client, !.URL = r.URL,
                                    !.before = m, !.queryParams = r.queryParamPairs]
    /\ UNCHANGED <<client, ctor>>

NextUrl == CallUrl

SpecUrl == InitUrl /\ [][NextUrl]_vars

---------------------------------------------------------------------------
(* The region table as the specification states it *)

Range(f) == {f[i] : i \in DOMAIN f}

RegionTable ==
    {[names |-> {"US", "United States"}, host |-> "us.battle.net",
      default |-> "en_US", locales |-> {"en_US", "es_MX", "pt_BR"}],
     [names |-> {"EU", "Europe"}, host |-> "eu.battle.net",
      default |-> "en_GB",
      locales |-> {"en_GB", "es_ES", "fr_FR", "ru_RU", "de_DE", "pt_PT", "it_IT"}],
     [names |-> {"KR", "Korea"}, host |-> "kr.battle.net",
      default |-> "ko_KR", locales |-> {"ko_KR"}],
     [names |-> {"TW", "Taiwan"}, host |-> "tw.battle.net",
      default |-> "zh_TW", locales |-> {"zh_TW"}],
     [names |-> {"ZH", "CN", "China"}, host |-> "www.battle.com.cn",
      default |-> "zh_CN", locales |-> {"zh_CN"}]}

SupportedRegions == UNION {t.names : t \in RegionTable}

TableEntry(region) == CHOOSE t \in RegionTable : region \in t.names

InvalidRegion(region) == <<"Region '", region, "' is not valid">>

IsInvalidLocale(err, locale, region) ==
    /\ Len(err) = 5
    /\ err[1] = "Locale '"
    /\ err[2] = locale
    /\ err[4] = region

---------------------------------------------------------------------------
(* Claims *)

\* C1: a Client that NewApiClient returned has, after any sequence of
\* resource-getter calls, a Locale in the valid-locale list of the region it
\* was constructed with and that region's Host; a getter leaves its receiver
\* as it was.
C1_LocaleOfRegion ==
    /\ ~client.isNil =>
          /\ ctor.region \in SupportedRegions
          /\ client.Host = TableEntry(ctor.region).host
          /\ client.Locale \in TableEntry(ctor.region).locales
    /\ call.op \in Getters => call.a = client

C1_Witness ==
    /\ call.op = "GetBattlePetStats"
    /\ Len(call.sent) = 1
    /\ ctor.region = "United States"
    /\ ctor.locale = "pt_BR"
    /\ client.Locale = "pt_BR"

\* C2: NewApiClient with a region that is not exactly one of the supported
\* identifiers fails with the InvalidRegion error and returns no Client,
\* whatever the locale.
C2_InvalidRegion ==
    (ctor.called /\ ctor.region \notin SupportedRegions) =>
        /\ client.isNil
        /\ ctor.err = InvalidRegion(ctor.region)

C2_Witness ==
    /\ ctor.called
    /\ ctor.region = "us"
    /\ ctor.locale = "en_US"
    /\ client.isNil

\* C3: NewApiClient with a supported region and a non-empty locale outside
\* that region's list fails with the InvalidLocale error, which names the
\* locale and the region as given, and returns no Client.
C3_InvalidLocale ==
    (/\ ctor.called
     /\ ctor.region \in SupportedRegions
     /\ ctor.locale # ""
     /\ ctor.locale \notin TableEntry(ctor.region).locales) =>
        /\ client.isNil
        /\ IsInvalidLocale(ctor.err, ctor.locale, ctor.region)

C3_Witness ==
    /\ ctor.called
    /\ ctor.region = "Europe"
    /\ ctor.locale = "en_US"
    /\ client.isNil

\* C4: NewApiClient with a supported region and an empty locale succeeds with
\* the first locale of the region's list.
C4_DefaultLocale ==
    (ctor.called /\ ctor.region \in SupportedRegions /\ ctor.locale = "") =>
        /\ ~client.isNil
        /\ ctor.err = Nil
        /\ client.Locale = TableEntry(ctor.region).default

C4_Witness ==
    /\ ctor.called
    /\ ctor.region = "EU"
    /\ ctor.locale = ""
    /\ client.Locale = "en_GB"

\* C5: NewApiClient has the same outcome for every alias of the region it was
\* called with: all fail, or all succeed with the same Host and Locale.
C5_Aliases ==
    (ctor.called /\ ctor.region \in SupportedRegions) =>
        \A other \in TableEntry(ctor.region).names :
            LET o == NewApiClient(other, ctor.locale) IN
            /\ (o.err = Nil) = (ctor.err = Nil)
            /\ o.client.isNil = client.isNil
            /\ o.client.Host = client.Host
            /\ o.client.Locale = client.Locale

C5_Witness ==
    /\ ctor.called
    /\ ctor.region = "China"
    /\ ctor.locale = ""
    /\ client.Host = "www.battle.com.cn"
    /\ client.Locale = "zh_CN"

\* The 17 field names the specification lists.
Whitelist ==
    {"achievements", "appearance", "feed", "guild", "hunterPets", "items",
     "mounts", "pets", "petSlots", "professions", "progression", "pvp",
     "quests", "reputation", "stats", "talents", "titles"}

NotWhitelisted(f) == f \notin Whitelist

\* The names of a list outside the whitelist, in order, with repetitions.
Rejected(fields) == SelectSeq(fields, NotWhitelisted)

RECURSIVE NamesOf(_)
\* The names a space-separated text lists.
NamesOf(t) ==
    IF t = <<>> THEN <<"">>
    ELSE IF t[1] = " " THEN <<"">> \o NamesOf(Tail(t))
    ELSE IF Len(t) = 1 THEN <<t[1]>>
    ELSE <<t[1]>> \o NamesOf(SubSeq(t, 3, Len(t)))

\* err is the InvalidFields error.
IsInvalidFields(err) ==
    /\ Len(err) >= 3
    /\ err[1] = "The following fields are not valid: "
    /\ err[2] = "["
    /\ err[Len(err)] = "]"

\* The names an InvalidFields error lists.
ListedNames(err) == NamesOf(SubSeq(err, 3, Len(err) - 1))

\* C6: validateCharacterFields succeeds exactly when every name of the list
\* is whitelisted, and otherwise fails with one InvalidFields error listing
\* exactly the non-whitelisted names, in input order and with repetitions;
\* GetCharacterWithFields fails with that error before any request, and with
\* whitelisted names alone goes on to its request.
C6_InvalidFields ==
    /\ call.op = "validateCharacterFields" =>
          /\ (call.err = Nil) <=> (Rejected(call.fields) = <<>>)
          /\ call.err # Nil =>
                /\ IsInvalidFields(call.err)
                /\ ListedNames(call.err) = Rejected(call.fields)
    /\ call.op \in {"GetCharacterWithFields", "GetCharacter"} =>
          /\ Rejected(call.fields) # <<>> =>
                /\ IsInvalidFields(call.err)
                /\ ListedNames(call.err) = Rejected(call.fields)
                /\ call.sent = <<>>
          /\ Rejected(call.fields) = <<>> =>
                /\ ~IsInvalidFields(call.err)
                /\ Len(call.sent) = 1
                /\ call.net = "GoodJSON" => call.err = Nil

C6_Witness ==
    /\ call.op = "GetCharacterWithFields"
    /\ call.fields = <<"bogus", "bogus">>
    /\ IsInvalidFields(call.err)

\* C7 as stated: every call of a resource getter issues exactly one HTTP GET,
\* and a network failure of it is the call's error.
C7_ExactlyOneRequest ==
    call.op \in Getters =>
        /\ Len(call.sent) = 1
        /\ call.net = "DoError" => call.err = <<"NetworkError">>

\* C7 as amended: a getter call issues at most one HTTP GET; it issues none
\* exactly when GetCharacterWithFields rejects its field list, and then fails
\* with InvalidFields; a network failure of the one request is the call's
\* error, and no second request follows it.
C7_OneRequestUnlessInvalidFields ==
    call.op \in Getters =>
        /\ Len(call.sent) <= 1
        /\ (Len(call.sent) = 0) <=>
              (call.op = "GetCharacterWithFields" /\ Rejected(call.fields) # <<>>)
        /\ Len(call.sent) = 0 => IsInvalidFields(call.err)
        /\ (Len(call.sent) = 1 /\ call.net = "DoError") =>
              call.err = <<"NetworkError">>
        /\ \A i \in DOMAIN call.sent : call.sent[i].Method = "GET"

C7_Witness ==
    /\ call.op = "GetAuctionData"
    /\ call.net = "DoError"
    /\ Len(call.sent) = 1
    /\ call.err = <<"NetworkError">>

Separators == {"&", "=", ",", ":", " ", "[", "]"}

\* v has exactly the form BNET <publicKey>:<signature>.
IsBnetHeader(v, publicKey) ==
    /\ Len(v) >= 4
    /\ v[Len(v)] \notin Separators
    /\ v = <<"BNET", " ">> \o Str(publicKey) \o <<":", v[Len(v)]>>

\* C8: a request of getWithParams carries one Authorization header of the
\* form BNET <publicKey>:<signature> when the Client's Secret is non-empty,
\* and no Authorization header when it is empty.
C8_AuthorizationHeader ==
    \A i \in DOMAIN call.sent :
        LET h == call.sent[i].Header.Authorization IN
        IF call.a.Secret # ""
        THEN Len(h) = 1 /\ IsBnetHeader(h[1], call.a.PublicKey)
        ELSE h = <<>>

RECURSIVE SplitOn(_, _)
\* The pieces of text t between the separators sep.
SplitOn(t, sep) ==
    IF \A i \in DOMAIN t : t[i] # sep THEN <<t>>
    ELSE LET i == CHOOSE j \in DOMAIN t :
                      t[j] = sep /\ \A k \in 1..(j - 1) : t[k] # sep
         IN <<SubSeq(t, 1, i - 1)>> \o SplitOn(SubSeq(t, i + 1, Len(t)), sep)

\* key=value read at the first "=".
PairOf(piece) ==
    IF \A i \in DOMAIN piece : piece[i] # "=" THEN <<piece, <<>>>>
    ELSE LET i == CHOOSE j \in DOMAIN piece :
                      piece[j] = "=" /\ \A k \in 1..(j - 1) : piece[k] # "="
         IN <<SubSeq(piece, 1, i - 1), SubSeq(piece, i + 1, Len(piece))>>

\* The key/value pairs of a query string.
ParseQuery(q) ==
    LET pieces == SplitOn(q, "&") IN [i \in DOMAIN pieces |-> PairOf(pieces[i])]

\* C9: for any parameter map, the query url builds holds exactly one locale
\* pair, whose value is the Client's Locale; the caller's map is left with
\* locale = Client.Locale; every other key is in the query with its value.
C9_LocaleParam ==
    call.op = "url" =>
        LET q == ParseQuery(call.URL.RawQuery)
            want == Str(call.a.Locale)
        IN /\ Cardinality({i \in DOMAIN q : q[i][1] = LocaleKey}) = 1
           /\ \A i \in DOMAIN q : q[i][1] = LocaleKey => q[i][2] = want
           /\ call.queryParams[LocaleKey] = want
           /\ \A k \in (DOMAIN call.before) \ {LocaleKey} :
                 /\ call.queryParams[k] = call.before[k]
                 /\ \E i \in DOMAIN q : q[i] = <<k, call.before[k]>>

\* C10: GetChallenges and GetChallenge request /challenge/region for an empty
\* realm and /challenge/<realm> for any other, so the realm "region" makes
\* the request of the empty realm.
C10_ChallengePath ==
    call.op \in {"GetChallenges", "GetChallenge"} =>
        /\ Len(call.sent) = 1
        /\ call.realm = "" =>
              call.sent[1].URL.Path = "/api/wow/challenge/region"
        /\ call.realm # "" =>
              call.sent[1].URL.Path = "/api/wow/challenge/" \o call.realm
        /\ call.realm \in {"", "region"} =>
              call.sent[1].URL =
                 [Scheme |-> "http", Host |-> call.a.Host,
                  Path |-> "/api/wow/challenge/region",
                  RawQuery |-> <<"locale", "=", call.a.Locale>>]

C10_Witness ==
    /\ call.op = "GetChallenge"
    /\ call.realm = ""
    /\ Len(call.sent) = 1
    /\ call.sent[1].URL.Path = "/api/wow/challenge/region"

====
